---- MODULE Spec2Model ----
(***************************************************************************)
(* PaletteManager of src/manager/palette.rs: a store of named palettes     *)
(* (HashMap<String, Vec<i32>>) synchronised with fixed-offset 32-byte      *)
(* blocks of a ROM file that is shared through an Arc<Mutex<File>>.        *)
(*                                                                         *)
(* Every caller owns one PaletteManager; all managers share one file       *)
(* (contents `rom`, cursor `pos`) and its mutex `lock`.  read_palette and  *)
(* write_palette are modelled statement by statement, because every        *)
(* `self.file.lock().unwrap().<io>(..)?` statement takes the mutex and     *)
(* drops the guard again at the end of that statement.                     *)
(***************************************************************************)
EXTENDS Integers, Sequences, FiniteSets, TLC

----------------------------------------------------------------------------
(* Program constants *)

\* let mut color_buffer: [u8; 32]
BlockBytes == 32
\* let mut colors = [0; 16]; for i in 0..16
PaletteWords == 16

(* Bounds of the model *)

\* number of callers (threads), each with its own PaletteManager
NCallers == 2
\* calls started on the shared ROM handle, by all callers together
MaxOps == 3
\* length of the longer initial ROM image
RomLen == 34
\* length of the shorter initial ROM image
SmallRomLen == 20
Callers == 1..NCallers

NoCaller == 0

----------------------------------------------------------------------------
(* The character roster (::data::CHARACTERS): name and ROM offset *)

CHARACTERS ==
    << [name |-> "Hero", palette_offset |-> 0],
       [name |-> "Far",  palette_offset |-> 36] >>

Character == {CHARACTERS[k] : k \in 1..Len(CHARACTERS)}

Names == {c.name : c \in Character}

----------------------------------------------------------------------------
(* Inputs *)

\* the ROM of the spec's scenario: 01 00 02 00 03 00 ...
IncRom(n) == [k \in 1..n |-> IF k % 2 = 1 THEN ((k + 1) \div 2) % 256 ELSE 0]

\* a ROM whose words have both bytes set: FF 7F FE 7F ...
HighRom(n) == [k \in 1..n |-> IF k % 2 = 1 THEN 255 - (k \div 2) ELSE 127]

RomImages == {IncRom(RomLen), HighRom(SmallRomLen)}

\* 16-bit words with the reserved bit 15 set in some of them
Mixed == [k \in 1..PaletteWords |-> IF k % 2 = 1 THEN 4660 + k ELSE 65535 - k]

\* words outside 0..65535 (the store holds i32)
Wide == [k \in 1..PaletteWords |-> IF k % 2 = 1 THEN 65536 + k ELSE 0 - k]

\* a palette of the wrong length (the store takes any Vec)
ShortPal == << 263, 519 >>

PaletteInputs == {Mixed, Wide, ShortPal}

ColorInputs ==
    { [k \in 1..PaletteWords |-> [r |-> (8 * k) % 256, g |-> 255, b |-> 7]] }

----------------------------------------------------------------------------
(* Small arithmetic *)

Min(a, b) == IF a < b THEN a ELSE b

Max(a, b) == IF a > b THEN a ELSE b

----------------------------------------------------------------------------
(* The ROM file behind Arc<Mutex<File>>: contents and cursor.  The byte at *)
(* file offset k is f[k + 1].                                              *)

\* File::seek(SeekFrom::Start(off)): the cursor moves to off, also past the end
seek(off) == off

\* File::read(&mut buf): number of bytes delivered, at most what is left
\* between the cursor and the end of the file
read_count(f, at, want) == Min(want, Max(0, Len(f) - at))

\* color_buffer after `read`: zero-initialised, the delivered bytes in front
read_buffer(f, at) ==
    [k \in 1..BlockBytes |->
        IF k <= read_count(f, at, BlockBytes) THEN f[at + k] ELSE 0]

\* File::write(&[a, b]) at the cursor: overwrites, extends the file when the
\* cursor is at or past its end (a gap reads as zero bytes)
write_bytes(f, at, bytes) ==
    [k \in 1..Max(Len(f), at + Len(bytes)) |->
        IF k > at /\ k <= at + Len(bytes) THEN bytes[k - at]
        ELSE IF k <= Len(f) THEN f[k]
        ELSE 0]

----------------------------------------------------------------------------
(* Byte order *)

\* swap_bytes gone wrong: the first byte taken as the high byte
swap_bytes_big_endian(a, b) == (a * 256) + b

\* let color: i32 = (b << 8) | a;   with a, b widened from u8
swap_bytes(a, b) == (b * 256) + a

\* colors[i] for i in 0..16 from color_buffer
decode_buffer(buf) ==
    [i \in 1..PaletteWords |-> swap_bytes(buf[2 * i - 1], buf[2 * i])]

\* word_bytes gone wrong: high byte first
word_bytes_high_first(i) == << (i \div 256) % 256, i % 256 >>

\* let b = (i & 0xFF00) >> 8; let a = i & 0x00FF; &[a as u8, b as u8]
\* (\div and % round to minus infinity, as the masks do on two's complement)
word_bytes(i) == << i % 256, (i \div 256) % 256 >>

----------------------------------------------------------------------------
(* The palette store: HashMap<String, Vec<i32>> as a function on its keys *)

EmptyMap == [n \in {} |-> <<>>]

\* insert gone wrong: an existing entry is kept (entry().or_insert())
insert_keep_old(m, name, colors) ==
    [n \in DOMAIN m \cup {name} |->
        IF n \in DOMAIN m THEN m[n] ELSE colors]

\* self.palettes.insert(name, colors)
insert(m, name, colors) ==
    [n \in DOMAIN m \cup {name} |-> IF n = name THEN colors ELSE m[n]]

\* get_unwrap gone wrong: a missing entry yields an empty palette
get_or_default(m, name) ==
    IF name \in DOMAIN m THEN [res |-> "Val", val |-> m[name]]
    ELSE [res |-> "Val", val |-> <<>>]

\* self.palettes.get(&name).unwrap().clone()
get_unwrap(m, name) ==
    IF name \in DOMAIN m THEN [res |-> "Val", val |-> m[name]]
    ELSE [res |-> "Panic", val |-> <<>>]

----------------------------------------------------------------------------
(* The colour codec (::color::GBAColorCache): 5 bits per channel, red in   *)
(* the low bits, bit 15 reserved; both directions memoised.                *)

EmptyCache == [to_rgb |-> EmptyMap, to_gba |-> EmptyMap]

\* decode: each 5-bit field scaled to 8 bits; bit 15 is ignored
decode(w) ==
    [r |-> (w % 32) * 8,
     g |-> ((w \div 32) % 32) * 8,
     b |-> ((w \div 1024) % 32) * 8]

\* encode: each channel reduced to 5 bits, fields combined
encode(c) ==
    ((c.r \div 8) % 32) + (32 * ((c.g \div 8) % 32))
        + (1024 * ((c.b \div 8) % 32))

\* color_cache.gba_to_rgb(i): cached value on a hit, else decode and remember
gba_to_rgb(cache, w) ==
    IF w \in DOMAIN cache.to_rgb
    THEN [val |-> cache.to_rgb[w], cache |-> cache]
    ELSE [val |-> decode(w),
          cache |-> [cache EXCEPT !.to_rgb =
                        [x \in DOMAIN cache.to_rgb \cup {w} |->
                            IF x = w THEN decode(w) ELSE cache.to_rgb[x]]]]

\* color_cache.rgb_to_gba(c): cached value on a hit, else encode and remember
rgb_to_gba(cache, c) ==
    IF c \in DOMAIN cache.to_gba
    THEN [val |-> cache.to_gba[c], cache |-> cache]
    ELSE [val |-> encode(c),
          cache |-> [cache EXCEPT !.to_gba =
                        [x \in DOMAIN cache.to_gba \cup {c} |->
                            IF x = c THEN encode(c) ELSE cache.to_gba[x]]]]

\* values.iter().map(|&i| self.color_cache.gba_to_rgb(i)).collect()
RECURSIVE map_gba_to_rgb(_, _)
map_gba_to_rgb(cache, values) ==
    IF values = <<>> THEN [val |-> <<>>, cache |-> cache]
    ELSE LET h == gba_to_rgb(cache, Head(values))
             t == map_gba_to_rgb(h.cache, Tail(values))
         IN  [val |-> <<h.val>> \o t.val, cache |-> t.cache]

\* colors.iter().map(|&c| self.color_cache.rgb_to_gba(c)).collect()
RECURSIVE map_rgb_to_gba(_, _)
map_rgb_to_gba(cache, colors) ==
    IF colors = <<>> THEN [val |-> <<>>, cache |-> cache]
    ELSE LET h == rgb_to_gba(cache, Head(colors))
             t == map_rgb_to_gba(h.cache, Tail(colors))
         IN  [val |-> <<h.val>> \o t.val, cache |-> t.cache]

----------------------------------------------------------------------------
(* State *)

VARIABLES
    rom,          \* contents of the ROM file
    pos,          \* cursor of the shared file handle
    lock,         \* holder of the Mutex<File>, NoCaller when free
    palettes,     \* palettes[p]: PaletteManager.palettes of caller p
    color_cache,  \* color_cache[p]: PaletteManager.color_cache of caller p
    pc,           \* pc[p]: the statement caller p is at
    frame,        \* frame[p]: locals of the read_palette / write_palette running
    last,         \* last[p]: the call caller p finished last
    prev,         \* prev[p]: the call caller p finished before that
    nops          \* number of calls started so far

vars == << rom, pos, lock, palettes, color_cache, pc, frame, last, prev, nops >>

NoCharacter == [name |-> "", palette_offset |-> 0]

\* no read_palette / write_palette running
NoFrame ==
    [op |-> "", ch |-> NoCharacter, ri |-> 0, color_buffer |-> <<>>,
     iter |-> <<>>, n |-> 0, rom0 |-> <<>>, pal0 |-> EmptyMap]

\* no call finished yet
NoCall ==
    [op |-> "", name |-> "", off |-> 0, arg |-> <<>>, res |-> "", ret |-> <<>>,
     fault |-> "none", n |-> 0, ri |-> 0, rom0 |-> <<>>, pal0 |-> EmptyMap]

\* PaletteManager::new(file) for every caller, over one of the ROM images
Init ==
    /\ rom \in RomImages
    /\ pos = 0
    /\ lock = NoCaller
    /\ palettes = [p \in Callers |-> EmptyMap]
    /\ color_cache = [p \in Callers |-> EmptyCache]
    /\ pc = [p \in Callers |-> "idle"]
    /\ frame = [p \in Callers |-> NoFrame]
    /\ last = [p \in Callers |-> NoCall]
    /\ prev = [p \in Callers |-> NoCall]
    /\ nops = 0

\* caller p may start a call
CanCall(p) == pc[p] = "idle" /\ nops < MaxOps

\* a call of caller p ends with the record call; a panic ends the caller
Return(p, call) ==
    /\ last' = [last EXCEPT ![p] = call]
    /\ prev' = [prev EXCEPT ![p] = last[p]]
    /\ pc' = [pc EXCEPT ![p] = IF call.res = "Panic" THEN "panicked" ELSE "idle"]
    /\ frame' = [frame EXCEPT ![p] = NoFrame]

\* the record of a call that ran in one piece
Call(p, op, name, arg, res, ret) ==
    [op |-> op, name |-> name, off |-> 0, arg |-> arg, res |-> res,
     ret |-> ret, fault |-> "none", n |-> 0, ri |-> 0, rom0 |-> rom,
     pal0 |-> palettes[p]]

\* the record of the read_palette(s) / write_palette of frame[p]
FrameCall(p, res, fault, n) ==
    [op |-> frame[p].op, name |-> frame[p].ch.name,
     off |-> frame[p].ch.palette_offset, arg |-> <<>>, res |-> res,
     ret |-> <<>>, fault |-> fault, n |-> n, ri |-> frame[p].ri,
     rom0 |-> frame[p].rom0, pal0 |-> frame[p].pal0]

\* guard_drop gone wrong: the guard survives the early return of `?`
guard_kept_on_error(p, ok) == IF ok THEN NoCaller ELSE p

\* the MutexGuard is a temporary of the statement: dropped at its end, on
\* the `?` return as well
guard_drop(p, ok) == NoCaller

----------------------------------------------------------------------------
(* Calls that run in one piece (they touch only the caller's own manager) *)

store_palette_i32(p, name, colors) ==
    /\ CanCall(p)
    /\ nops' = nops + 1
    /\ palettes' = [palettes EXCEPT ![p] = insert(@, name, colors)]
    /\ Return(p, Call(p, "store_palette_i32", name, colors, "Ok", <<>>))
    /\ UNCHANGED << rom, pos, lock, color_cache >>

store_palette_colors(p, name, colors) ==
    LET gba_colors == map_rgb_to_gba(color_cache[p], colors) IN
    /\ CanCall(p)
    /\ nops' = nops + 1
    /\ color_cache' = [color_cache EXCEPT ![p] = gba_colors.cache]
    /\ palettes' = [palettes EXCEPT ![p] = insert(@, name, gba_colors.val)]
    /\ Return(p, Call(p, "store_palette_colors", name, colors, "Ok", <<>>))
    /\ UNCHANGED << rom, pos, lock >>

load_palette_i32(p, name) ==
    LET got == get_unwrap(palettes[p], name) IN
    /\ CanCall(p)
    /\ nops' = nops + 1
    /\ Return(p, Call(p, "load_palette_i32", name, <<>>, got.res, got.val))
    /\ UNCHANGED << rom, pos, lock, palettes, color_cache >>

load_palette_colors(p, name) ==
    LET values == get_unwrap(palettes[p], name)
        colors == map_gba_to_rgb(color_cache[p], values.val)
    IN
    /\ CanCall(p)
    /\ nops' = nops + 1
    /\ color_cache' = [color_cache EXCEPT ![p] =
                          IF values.res = "Panic" THEN @ ELSE colors.cache]
    /\ Return(p, Call(p, "load_palette_colors", name, <<>>, values.res,
                      IF values.res = "Panic" THEN <<>> ELSE colors.val))
    /\ UNCHANGED << rom, pos, lock, palettes >>

----------------------------------------------------------------------------
(* read_palette, read_palettes and write_palette, statement by statement *)

\* entry of read_palette(character)
read_palette(p, character) ==
    /\ CanCall(p)
    /\ nops' = nops + 1
    /\ frame' = [frame EXCEPT ![p] =
                    [NoFrame EXCEPT !.op = "read_palette", !.ch = character,
                                    !.rom0 = rom, !.pal0 = palettes[p]]]
    /\ pc' = [pc EXCEPT ![p] = "read_lock_seek"]
    /\ UNCHANGED << rom, pos, lock, palettes, color_cache, last, prev >>

\* entry of read_palettes(): the first character of the roster, if any
read_palettes(p) ==
    /\ CanCall(p)
    /\ nops' = nops + 1
    /\ IF Len(CHARACTERS) = 0
       THEN /\ Return(p, Call(p, "read_palettes", "", <<>>, "Ok", <<>>))
       ELSE /\ frame' = [frame EXCEPT ![p] =
                            [NoFrame EXCEPT !.op = "read_palettes",
                                            !.ch = CHARACTERS[1], !.ri = 1,
                                            !.rom0 = rom, !.pal0 = palettes[p]]]
            /\ pc' = [pc EXCEPT ![p] = "read_lock_seek"]
            /\ UNCHANGED << last, prev >>
    /\ UNCHANGED << rom, pos, lock, palettes, color_cache >>

\* entry of write_palette(character)
write_palette(p, character) ==
    /\ CanCall(p)
    /\ nops' = nops + 1
    /\ frame' = [frame EXCEPT ![p] =
                    [NoFrame EXCEPT !.op = "write_palette", !.ch = character,
                                    !.rom0 = rom, !.pal0 = palettes[p]]]
    /\ pc' = [pc EXCEPT ![p] = "write_lock_seek"]
    /\ UNCHANGED << rom, pos, lock, palettes, color_cache, last, prev >>

\* the statement reached once the mutex is taken
Locked ==
    [read_lock_seek |-> "read_seek", read_lock_read |-> "read_read",
     write_lock_seek |-> "write_seek", write_lock_write |-> "write_write"]

\* self.file.lock().unwrap(): blocks while another caller holds the mutex
file_lock(p) ==
    /\ pc[p] \in DOMAIN Locked
    /\ lock = NoCaller
    /\ lock' = p
    /\ pc' = [pc EXCEPT ![p] = Locked[pc[p]]]
    /\ UNCHANGED << rom, pos, palettes, color_cache, frame, last, prev, nops >>

\* read_palette: .seek(SeekFrom::Start(character.palette_offset))?;
read_seek(p) ==
    /\ pc[p] = "read_seek"
    /\ \E ok \in BOOLEAN :
          /\ lock' = guard_drop(p, ok)
          /\ IF ok
             THEN /\ pos' = seek(frame[p].ch.palette_offset)
                  /\ pc' = [pc EXCEPT ![p] = "read_lock_read"]
                  /\ UNCHANGED << frame, last, prev >>
             ELSE /\ Return(p, FrameCall(p, "Err", "seek", 0))
                  /\ UNCHANGED pos
    /\ UNCHANGED << rom, palettes, color_cache, nops >>

\* read_palette: let mut color_buffer = [0; 32]; .read(&mut color_buffer[..])?;
\* the number of bytes `read` returns is dropped
read_read(p) ==
    /\ pc[p] = "read_read"
    /\ \E ok \in BOOLEAN :
          /\ lock' = guard_drop(p, ok)
          /\ IF ok
             THEN /\ frame' = [frame EXCEPT
                                  ![p].color_buffer = read_buffer(rom, pos),
                                  ![p].n = read_count(rom, pos, BlockBytes)]
                  /\ pos' = pos + read_count(rom, pos, BlockBytes)
                  /\ pc' = [pc EXCEPT ![p] = "read_store"]
                  /\ UNCHANGED << last, prev >>
             ELSE /\ Return(p, FrameCall(p, "Err", "read", 0))
                  /\ UNCHANGED pos
    /\ UNCHANGED << rom, palettes, color_cache, nops >>

\* read_palette: the byte swap loop, store_palette_i32, Ok(()); inside
\* read_palettes the loop goes on to the next character of the roster
read_store(p) ==
    /\ pc[p] = "read_store"
    /\ palettes' = [palettes EXCEPT ![p] =
                       insert(@, frame[p].ch.name,
                              decode_buffer(frame[p].color_buffer))]
    /\ IF frame[p].op = "read_palettes" /\ frame[p].ri < Len(CHARACTERS)
       THEN /\ frame' = [frame EXCEPT
                            ![p].ch = CHARACTERS[frame[p].ri + 1],
                            ![p].ri = frame[p].ri + 1,
                            ![p].color_buffer = <<>>, ![p].n = 0]
            /\ pc' = [pc EXCEPT ![p] = "read_lock_seek"]
            /\ UNCHANGED << last, prev >>
       ELSE /\ Return(p, FrameCall(p, "Ok", "none", frame[p].n))
    /\ UNCHANGED << rom, pos, lock, color_cache, nops >>

\* write_palette: .seek(SeekFrom::Start(character.palette_offset))?;
write_seek(p) ==
    /\ pc[p] = "write_seek"
    /\ \E ok \in BOOLEAN :
          /\ lock' = guard_drop(p, ok)
          /\ IF ok
             THEN /\ pos' = seek(frame[p].ch.palette_offset)
                  /\ pc' = [pc EXCEPT ![p] = "write_load"]
                  /\ UNCHANGED << frame, last, prev >>
             ELSE /\ Return(p, FrameCall(p, "Err", "seek", 0))
                  /\ UNCHANGED pos
    /\ UNCHANGED << rom, palettes, color_cache, nops >>

\* write_palette: for i in self.load_palette_i32(name).iter()
\* load_palette_i32 panics on a missing entry; no guard is alive here
write_load(p) ==
    LET got == get_unwrap(palettes[p], frame[p].ch.name) IN
    /\ pc[p] = "write_load"
    /\ IF got.res = "Panic"
       THEN Return(p, FrameCall(p, "Panic", "none", 0))
       ELSE IF got.val = <<>>
       THEN Return(p, FrameCall(p, "Ok", "none", 0))
       ELSE /\ frame' = [frame EXCEPT ![p].iter = got.val]
            /\ pc' = [pc EXCEPT ![p] = "write_lock_write"]
            /\ UNCHANGED << last, prev >>
    /\ UNCHANGED << rom, pos, lock, palettes, color_cache, nops >>

\* write_palette: .write(&[a as u8, b as u8])?; for the next word of the loop
write_write(p) ==
    /\ pc[p] = "write_write"
    /\ \E ok \in BOOLEAN :
          /\ lock' = guard_drop(p, ok)
          /\ IF ok
             THEN /\ rom' = write_bytes(rom, pos, word_bytes(Head(frame[p].iter)))
                  /\ pos' = pos + 2
                  /\ IF Tail(frame[p].iter) = <<>>
                     THEN Return(p, FrameCall(p, "Ok", "none", frame[p].n + 2))
                     ELSE /\ frame' = [frame EXCEPT
                                          ![p].iter = Tail(@),
                                          ![p].n = @ + 2]
                          /\ pc' = [pc EXCEPT ![p] = "write_lock_write"]
                          /\ UNCHANGED << last, prev >>
             ELSE /\ Return(p, FrameCall(p, "Err", "write", frame[p].n))
                  /\ UNCHANGED << rom, pos >>
    /\ UNCHANGED << palettes, color_cache, nops >>

----------------------------------------------------------------------------
(* Specifications *)

\* the colours store_palette_colors may be given: fresh ones, or what the
\* caller's last load_palette_colors returned
ColorArgs(p) ==
    ColorInputs \cup
        (IF last[p].op = "load_palette_colors" /\ last[p].res = "Val"
         THEN {last[p].ret} ELSE {})

\* caller p starts a call, with any arguments
Start(p) ==
    \/ \E name \in Names, colors \in PaletteInputs :
          store_palette_i32(p, name, colors)
    \/ \E name \in Names, colors \in ColorArgs(p) :
          store_palette_colors(p, name, colors)
    \/ \E name \in Names : load_palette_i32(p, name)
    \/ \E name \in Names : load_palette_colors(p, name)
    \/ \E character \in Character : read_palette(p, character)
    \/ read_palettes(p)
    \/ \E character \in Character : write_palette(p, character)

\* caller p goes on with the read_palette(s) / write_palette it is in
Run(p) ==
    \/ file_lock(p)
    \/ read_seek(p)
    \/ read_read(p)
    \/ read_store(p)
    \/ write_seek(p)
    \/ write_load(p)
    \/ write_write(p)

\* a single caller owns the ROM handle
Next == Start(1) \/ Run(1)

Spec == Init /\ [][Next]_vars

\* several callers, each with its own manager, share the ROM handle
\* each caller works on a character of its own
OwnCharacter(p) == CHARACTERS[((p - 1) % Len(CHARACTERS)) + 1]

\* the managers exist for a while, over the longer ROM: each holds nothing
\* yet, or each holds the palette store_palette_i32 stored for its character
SharedInit ==
    /\ rom = IncRom(RomLen)
    /\ pos = 0
    /\ lock = NoCaller
    /\ palettes \in [Callers -> {EmptyMap}] \cup
                    {[p \in Callers |->
                         insert(EmptyMap, OwnCharacter(p).name, ShortPal)]}
    /\ color_cache = [p \in Callers |-> EmptyCache]
    /\ pc = [p \in Callers |-> "idle"]
    /\ frame = [p \in Callers |-> NoFrame]
    /\ last = [p \in Callers |-> NoCall]
    /\ prev = [p \in Callers |-> NoCall]
    /\ nops = 0

\* every caller makes one call, and the calls overlap in every possible way
SharedStart(p) ==
    /\ last[p] = NoCall
    /\ \/ read_palette(p, OwnCharacter(p))
       \/ write_palette(p, OwnCharacter(p))

SharedNext == \E p \in Callers : SharedStart(p) \/ Run(p)

SharedSpec == SharedInit /\ [][SharedNext]_vars

\* a caller inside a call is scheduled again; a caller waiting for the mutex
\* gets it if it is free again and again
FairSharedSpec ==
    /\ SharedSpec
    /\ \A p \in Callers : WF_vars(Run(p)) /\ SF_vars(file_lock(p))

----------------------------------------------------------------------------
(* Vocabulary of the properties *)

\* caller p is between calls (or dead after a panic)
AtRest(p) == pc[p] \in {"idle", "panicked"}

\* the 16 words are packed colour words of 16 bits
IsPalette16(colors) ==
    /\ Len(colors) = PaletteWords
    /\ \A i \in 1..PaletteWords : colors[i] \in 0..65535

\* the store m holds under the names of S what the store m0 held
SameEntries(m, m0, S) ==
    \A n \in S : /\ n \in DOMAIN m <=> n \in DOMAIN m0
                 /\ n \in DOMAIN m => m[n] = m0[n]

\* the bytes of f that existed in f0 outside [from, to) are those of f0
SameOutside(f, f0, from, to) ==
    /\ Len(f) >= Len(f0)
    /\ \A k \in 1..Len(f0) : (k <= from \/ k > to) => f[k] = f0[k]

----------------------------------------------------------------------------
(* C1 *)

\* the case of C1: caller p has written a 16-word palette of 16-bit words to
\* an offset with 32 bytes of ROM and then read it back, the storage working
WroteThenRead(p) ==
    /\ AtRest(p)
    /\ prev[p].op = "write_palette" /\ prev[p].res = "Ok"
    /\ last[p].op = "read_palette" /\ last[p].fault = "none"
    /\ last[p].name = prev[p].name /\ last[p].off = prev[p].off
    /\ prev[p].name \in DOMAIN prev[p].pal0
    /\ IsPalette16(prev[p].pal0[prev[p].name])
    /\ prev[p].off + BlockBytes <= Len(prev[p].rom0)

\* C1: write_palette(character) followed by read_palette(character) returns
\* Ok and leaves the palette stored under the character's name equal to the
\* 16 words it held before the write, in the same order.
WriteReadRoundTrip ==
    \A p \in Callers :
        WroteThenRead(p) =>
            /\ last[p].res = "Ok"
            /\ last[p].name \in DOMAIN palettes[p]
            /\ palettes[p][last[p].name] = prev[p].pal0[prev[p].name]

\* a palette with distinct low and high bytes went through the round trip
WriteReadRoundTripSeen ==
    \E p \in Callers :
        /\ WroteThenRead(p)
        /\ \E i \in 1..PaletteWords :
              prev[p].pal0[prev[p].name][i] \div 256
                  # prev[p].pal0[prev[p].name][i] % 256

----------------------------------------------------------------------------
(* C2 *)

\* caller p has done its seek and not yet its last transfer
InTransfer(p) ==
    pc[p] \in {"read_lock_read", "read_read", "write_load",
               "write_lock_write", "write_write"}

\* C2: between the seek of a caller and the end of its transfer no other
\* caller's seek or transfer takes place: the cursor stays where the caller
\* put it, at its descriptor's offset plus the bytes it has transferred.
SeekTransferAtomic ==
    \A p \in Callers :
        InTransfer(p) => pos = frame[p].ch.palette_offset + frame[p].n

----------------------------------------------------------------------------
(* C3 *)

\* C3: read_palette returns an I/O error when the seek fails, the read fails
\* or fewer than 32 bytes are delivered, and then the store is as before.
ReadFailsOnShortRead ==
    \A p \in Callers :
        (/\ AtRest(p)
         /\ last[p].op = "read_palette"
         /\ (last[p].fault \in {"seek", "read"} \/ last[p].n < BlockBytes))
        => /\ last[p].res = "Err"
           /\ palettes[p] = last[p].pal0

----------------------------------------------------------------------------
(* C4 *)

\* roster indices of the descriptors whose offset is beyond the ROM f
Beyond(f) ==
    {k \in 1..Len(CHARACTERS) : CHARACTERS[k].palette_offset > Len(f)}

\* the first of them
FirstBeyond(f) ==
    CHOOSE k \in Beyond(f) : \A j \in Beyond(f) : k <= j

\* C4: read_palettes that reaches a descriptor whose offset is beyond the
\* ROM returns an I/O error there; the palettes read for the descriptors
\* before it are in the store, and nothing is stored for it or a later one.
ReadPalettesStopsBeyondRom ==
    \A p \in Callers :
        (/\ AtRest(p)
         /\ last[p].op = "read_palettes"
         /\ Beyond(last[p].rom0) # {}
         /\ last[p].ri >= FirstBeyond(last[p].rom0))
        => LET k == FirstBeyond(last[p].rom0) IN
           /\ last[p].res = "Err"
           /\ last[p].ri = k
           /\ \A j \in 1..(k - 1) :
                 /\ CHARACTERS[j].name \in DOMAIN palettes[p]
                 /\ palettes[p][CHARACTERS[j].name] =
                       decode_buffer(read_buffer(last[p].rom0,
                                                 CHARACTERS[j].palette_offset))
           /\ SameEntries(palettes[p], last[p].pal0,
                          {CHARACTERS[j].name : j \in k..Len(CHARACTERS)})

----------------------------------------------------------------------------
(* C5 *)

\* C5: after a successful read_palette the stored palette has 16 entries,
\* entry i being (ROM[offset + 2i + 1] << 8) | ROM[offset + 2i], a value of
\* 0..65535, for the 32 ROM bytes at the offset; the ROM is unchanged.
ReadDecodesRomBlock ==
    \A p \in Callers :
        (AtRest(p) /\ last[p].op = "read_palette" /\ last[p].res = "Ok")
        => /\ rom = last[p].rom0
           /\ last[p].name \in DOMAIN palettes[p]
           /\ Len(palettes[p][last[p].name]) = PaletteWords
           /\ last[p].off + BlockBytes <= Len(rom)
           /\ \A i \in 1..PaletteWords :
                 /\ palettes[p][last[p].name][i] =
                       (rom[last[p].off + 2 * i] * 256)
                           + rom[last[p].off + 2 * i - 1]
                 /\ palettes[p][last[p].name][i] \in 0..65535

----------------------------------------------------------------------------
(* C6 *)

\* caller p has come back from a successful write_palette
WroteOk(p) ==
    AtRest(p) /\ last[p].op = "write_palette" /\ last[p].res = "Ok"

\* the ROM holds at off the words of colors, low byte first
HoldsWords(f, off, colors) ==
    /\ off + 2 * Len(colors) <= Len(f)
    /\ \A i \in 1..Len(colors) :
          /\ f[off + 2 * i - 1] = colors[i] % 256
          /\ f[off + 2 * i] = (colors[i] \div 256) % 256

\* C6 as stated: a successful write_palette writes exactly 32 bytes, the low
\* and the high byte of each of the 16 stored words, and leaves every ROM
\* byte outside [offset, offset + 32) and the palette store unchanged.
WriteWrites32Bytes ==
    \A p \in Callers :
        WroteOk(p) =>
            /\ last[p].n = BlockBytes
            /\ Len(last[p].pal0[last[p].name]) = PaletteWords
            /\ HoldsWords(rom, last[p].off, last[p].pal0[last[p].name])
            /\ SameOutside(rom, last[p].rom0, last[p].off,
                           last[p].off + BlockBytes)
            /\ palettes[p] = last[p].pal0

\* C6 amended: a successful write_palette writes two bytes for every word of
\* the stored palette, low byte then high byte, 32 bytes when the palette has
\* 16 words; the ROM bytes that existed outside the written range and the
\* palette store are unchanged.
WriteWritesStoredWords ==
    \A p \in Callers :
        WroteOk(p) =>
            LET colors == last[p].pal0[last[p].name] IN
            /\ last[p].n = 2 * Len(colors)
            /\ Len(colors) = PaletteWords => last[p].n = BlockBytes
            /\ HoldsWords(rom, last[p].off, colors)
            /\ SameOutside(rom, last[p].rom0, last[p].off,
                           last[p].off + 2 * Len(colors))
            /\ Len(rom) = Max(Len(last[p].rom0),
                              last[p].off + 2 * Len(colors))
            /\ palettes[p] = last[p].pal0

\* a 16-word palette with distinct low and high bytes was written to a block
\* that has ROM bytes behind it
WriteWritesStoredWordsSeen ==
    \E p \in Callers :
        /\ WroteOk(p)
        /\ Len(last[p].pal0[last[p].name]) = PaletteWords
        /\ last[p].off + BlockBytes < Len(rom)
        /\ \E i \in 1..PaletteWords :
              last[p].pal0[last[p].name][i] \div 256
                  # last[p].pal0[last[p].name][i] % 256

----------------------------------------------------------------------------
(* C7 *)

\* caller p is back from a call that looks up a name never stored
LookedUpMissing(p) ==
    /\ AtRest(p)
    /\ last[p].op \in {"load_palette_i32", "load_palette_colors",
                       "write_palette"}
    /\ last[p].name \notin DOMAIN last[p].pal0

\* C7 as stated: the three calls end in the panic for a name never stored,
\* with the store and the ROM as before.
MissingNamePanics ==
    \A p \in Callers :
        LookedUpMissing(p) =>
            /\ last[p].res = "Panic"
            /\ palettes[p] = last[p].pal0
            /\ rom = last[p].rom0

\* C7 amended: the two loads end in the panic; write_palette seeks first, so
\* it ends in the panic when the seek succeeds and returns the I/O error of
\* the seek when it fails; the store and the ROM are as before in each case.
MissingNamePanicsAfterSeek ==
    \A p \in Callers :
        LookedUpMissing(p) =>
            /\ \/ last[p].res = "Panic"
               \/ /\ last[p].op = "write_palette"
                  /\ last[p].res = "Err"
                  /\ last[p].fault = "seek"
            /\ last[p].op # "write_palette" => last[p].res = "Panic"
            /\ palettes[p] = last[p].pal0
            /\ rom = last[p].rom0

\* write_palette for a missing name has panicked after its seek
MissingNamePanicsAfterSeekSeen ==
    \E p \in Callers :
        /\ LookedUpMissing(p)
        /\ last[p].op = "write_palette"
        /\ last[p].res = "Panic"
        /\ pos = last[p].off

----------------------------------------------------------------------------
(* C8 *)

\* the name the step of caller p stores under: that of the store call that
\* returns in the step, or that of the character read_palette is at
StoredUnder(p) ==
    IF pc[p] = "read_store" THEN {frame[p].ch.name}
    ELSE IF last'[p].op \in {"store_palette_i32", "store_palette_colors"}
              /\ pc[p] = "idle" /\ nops' = nops + 1
    THEN {last'[p].name}
    ELSE {}

\* what store_palette_i32 and load_palette_i32 leave behind
StoreThenLoad(p) ==
    /\ last[p].op = "store_palette_i32" =>
          /\ DOMAIN palettes[p] = DOMAIN last[p].pal0 \cup {last[p].name}
          /\ palettes[p][last[p].name] = last[p].arg
          /\ SameEntries(palettes[p], last[p].pal0,
                         DOMAIN palettes[p] \ {last[p].name})
    /\ (last[p].op = "load_palette_i32" /\ last[p].res = "Val") =>
          /\ last[p].ret = palettes[p][last[p].name]
          /\ palettes[p] = last[p].pal0
    /\ (/\ last[p].op = "load_palette_i32"
        /\ prev[p].name = last[p].name
        /\ prev[p].op = "store_palette_i32") =>
          /\ last[p].res = "Val"
          /\ last[p].ret = prev[p].arg
    /\ (/\ last[p].op = "load_palette_i32"
        /\ prev[p].name = last[p].name
        /\ prev[p].op = "read_palette" /\ prev[p].res = "Ok") =>
          /\ last[p].res = "Val"
          /\ last[p].ret = decode_buffer(read_buffer(prev[p].rom0, prev[p].off))

\* C8: load_palette_i32(name) returns the sequence of the most recent store
\* or successful read under that name, whole; a store under one name changes
\* no other entry; no step removes a name from the store.
LoadReturnsLatestStore ==
    /\ [](\A p \in Callers : AtRest(p) => StoreThenLoad(p))
    /\ [][\A p \in Callers : \A n \in DOMAIN palettes[p] :
             /\ n \in DOMAIN palettes'[p]
             /\ n \notin StoredUnder(p) => palettes'[p][n] = palettes[p][n]]_vars

\* a store has replaced a different palette and a load has returned it
LoadReturnsLatestStoreSeen ==
    \E p \in Callers :
        /\ AtRest(p)
        /\ last[p].op = "load_palette_i32"
        /\ prev[p].op = "store_palette_i32"
        /\ prev[p].name = last[p].name
        /\ prev[p].name \in DOMAIN prev[p].pal0
        /\ prev[p].pal0[prev[p].name] # prev[p].arg
        /\ Cardinality(DOMAIN palettes[p]) > 1

----------------------------------------------------------------------------
(* C9 *)

\* C9: encode(decode(w)) = w for every 16-bit word w, so storing what
\* load_palette_colors returned, under the same name, leaves a palette of
\* 16-bit words as it was, whatever the cache holds.
DecodeEncodeRoundTrip ==
    \A p \in Callers :
        /\ \A w \in DOMAIN color_cache[p].to_rgb :
              w \in 0..65535 => encode(color_cache[p].to_rgb[w]) = w
        /\ (/\ AtRest(p)
            /\ last[p].op = "store_palette_colors"
            /\ prev[p].op = "load_palette_colors" /\ prev[p].res = "Val"
            /\ prev[p].name = last[p].name
            /\ last[p].arg = prev[p].ret
            /\ \A i \in 1..Len(last[p].pal0[last[p].name]) :
                  last[p].pal0[last[p].name][i] \in 0..65535)
           => palettes[p][last[p].name] = last[p].pal0[last[p].name]

----------------------------------------------------------------------------
(* C10 *)

\* C10: a caller that has left read_palette or write_palette, by Ok, by an
\* I/O error or by the panic, does not hold the ROM mutex, and every call a
\* caller is in comes to an end.
LockReleasedAndCallsEnd ==
    /\ [](\A p \in Callers : AtRest(p) => lock # p)
    /\ \A p \in Callers : (~AtRest(p)) ~> AtRest(p)

\* a caller has left with an I/O error while another waits for the mutex
LockReleasedAndCallsEndSeen ==
    \E p, q \in Callers :
        /\ p # q
        /\ last[p].res = "Err" /\ AtRest(p)
        /\ pc[q] \in DOMAIN Locked
        /\ lock = NoCaller

====
